---- MODULE Spec2Model ----
(***************************************************************************)
(* A model of gmail_client/message.py: the MIME part classifier            *)
(* (ParsedEmail), the Message entity with its flag / label / move / fetch  *)
(* operations, and the cross-mailbox thread reconstruction (fetch_thread), *)
(* alone, by two callers of one session, and against the server's copy.    *)
(*                                                                         *)
(* Conventions.  A Python string is a sequence of chunks (<<"\\","Seen">>  *)
(* is the text \Seen, <<>> the empty text).  An optional value is None     *)
(* (<<>>) or Some(v) (<<v>>), so that None and the empty text Some(<<>>)   *)
(* stay distinguishable.  Every method is an operator over an execution    *)
(* context x = [m, calls, raised, env, ...]: m is the Message object,      *)
(* calls the remote calls issued so far by the running operation, raised   *)
(* whether an exception is propagating, env the outcome the session gives  *)
(* to the k-th remote call of the operation.                               *)
(***************************************************************************)
EXTENDS Integers, Sequences, FiniteSets, TLC

VARIABLES
    mail,       \* ParsedEmail: the message object handed to the constructor;
                \* SpecStore: the message as the server holds it
    parsed,     \* ParsedEmail: None before construction, Some(ParsedEmail) after
    msg,        \* Message: the Message object the operations are invoked on
                \* (SpecConcurrent: one per caller)
    labels,     \* session: what gmail.labels() returns for the account
    current,    \* session: the name of the active (selected) mailbox
    messages,   \* messages[name]: the cache of mailbox name, a map from uid to Message
    calls,      \* remote calls issued by the most recent operation, in order
                \* (SpecConcurrent: the statements issued by the callers)
    last        \* the most recent operation: name, argument, state before, outcome
                \* (SpecConcurrent: each caller's position and local state)

vars == <<mail, parsed, msg, labels, current, messages, calls, last>>

None == <<>>
Some(v) == <<v>>

-----------------------------------------------------------------------------
(* ParsedEmail                                                             *)

\* A message object is a sequence of parts; part 1 is the root and every
\* other part names the part it is attached to (its parent).
\* Bound: the number of parts of a message object.
MaxParts == 3

ContainerTypes == {"multipart/mixed", "message/rfc822"}
LeafTypes == {"text/plain", "text/html", "application/pdf"}

report_pdf == <<"report.pdf">>

\* (filename, Content-Disposition) of a part
PartNames ==
    { <<None, None>>,
      <<Some(report_pdf), None>>,
      <<None, Some(<<"attachment">>)>>,
      <<None, Some(<<"inline">>)>>,
      <<Some(report_pdf), Some(<<"attachment", "; filename=", "report.pdf">>)>> }

ContainerNames == { <<None, None>>, <<Some(report_pdf), None>> }

Part(ct, nm, par) ==
    [ctype |-> ct, filename |-> nm[1], disposition |-> nm[2], parent |-> par]

Children(parts, i) == { j \in 1..Len(parts) : parts[j].parent = i }

\* the parts a new part may be attached to: a multipart takes any number of
\* subparts, a message/rfc822 part holds exactly one message
Attachable(parts) ==
    { i \in 1..Len(parts) :
        \/ parts[i].ctype = "multipart/mixed"
        \/ parts[i].ctype = "message/rfc822" /\ Children(parts, i) = {} }

PartKinds(par) ==
    { Part(ct, nm, par) : ct \in LeafTypes, nm \in PartNames }
        \cup { Part(ct, nm, par) : ct \in ContainerTypes, nm \in ContainerNames }

\* the decoded body of a part: a container has none, a leaf has its own text
get_payload(parts, i) ==
    IF Children(parts, i) # {} THEN None ELSE Some(<<"payload", i>>)

get_content_maintype(p) ==
    CASE p.ctype \in {"text/plain", "text/html"} -> "text"
      [] p.ctype = "multipart/mixed" -> "multipart"
      [] p.ctype = "message/rfc822" -> "message"
      [] OTHER -> "application"

RECURSIVE walk(_, _)
RECURSIVE walk_all(_, _, _)
\* Message.walk(): the part, then the walk of each subpart, in order
walk_all(parts, kids, j) ==
    IF j > Len(parts) THEN <<>>
    ELSE IF j \in kids THEN walk(parts, j) \o walk_all(parts, kids, j + 1)
    ELSE walk_all(parts, kids, j + 1)

walk(parts, i) == <<i>> \o walk_all(parts, Children(parts, i), 1)

Contains(s, tok) == \E k \in 1..Len(s) : s[k] = tok

is_attachment(p) ==
    \/ p.filename # None
    \/ p.disposition # None /\ Contains(p.disposition[1], "attachment")

is_multi_part(p) == "multipart" = get_content_maintype(p)

is_html(p) == p.ctype = "text/html"

is_text(p) == p.ctype = "text/plain"

\* codecs.decode_email_header: str(None) is the text None; plain ASCII is kept
decode_email_header(header) ==
    IF header = None THEN <<"None">> ELSE header[1]

Attachment(name, content_type, content) ==
    [name |-> name, content_type |-> content_type, content |-> content]

NewParsedEmail == [_body |-> <<>>, _html |-> <<>>, _attachments |-> <<>>]

parse_attachment(pe, parts, i) ==
    [pe EXCEPT !._attachments =
        Append(@, [part |-> i,
                   a |-> Attachment(decode_email_header(parts[i].filename),
                                    parts[i].ctype,
                                    get_payload(parts, i))])]

parse_message(pe, parts, i) ==
    IF is_html(parts[i]) THEN [pe EXCEPT !._html = Append(@, i)]
    ELSE IF is_text(parts[i]) THEN [pe EXCEPT !._body = Append(@, i)]
    ELSE pe

\* a classifier that tries the body types before the attachment test
parse_message_part_body_first(pe, parts, i) ==
    IF is_html(parts[i]) \/ is_text(parts[i])
    THEN parse_message(pe, parts, i)
    ELSE IF is_attachment(parts[i]) THEN parse_attachment(pe, parts, i) ELSE pe

parse_message_part(pe, parts, i) ==
    IF is_attachment(parts[i])
    THEN parse_attachment(pe, parts, i)
    ELSE parse_message(pe, parts, i)

RECURSIVE parse_each(_, _, _)
parse_each(pe, parts, order) ==
    IF order = <<>> THEN pe
    ELSE parse_each(parse_message_part(pe, parts, Head(order)), parts, Tail(order))

parse(pe, parts) ==
    IF is_multi_part(parts[1])
    THEN parse_each(pe, parts, walk(parts, 1))
    ELSE parse_message_part(pe, parts, 1)

ParsedEmail(parts) == parse(NewParsedEmail, parts)

\* an accessor that returns the first recorded candidate
_get_content_first(parts, l) ==
    IF Len(l) # 0 THEN get_payload(parts, l[1]) ELSE Some(<<>>)

_get_content(parts, l) ==
    IF Len(l) # 0 THEN get_payload(parts, l[Len(l)]) ELSE Some(<<>>)

html(pe, parts) == _get_content(parts, pe._html)

txt(pe, parts) == _get_content(parts, pe._body)

attachments(pe) == pe._attachments

-----------------------------------------------------------------------------
(* ParsedEmail as a state machine: email.message_from_string builds the    *)
(* message object part by part, then the constructor parses it.            *)

NoMsg == [uid |-> <<"0">>]

InitParse ==
    /\ mail \in { <<p>> : p \in PartKinds(0) }
    /\ parsed = None
    /\ msg = NoMsg
    /\ labels = {}
    /\ current = "INBOX"
    /\ messages = <<>>
    /\ calls = <<>>
    /\ last = [op |-> "none"]

\* the parser attaches one more part to a container of the message object
Attach ==
    /\ parsed = None
    /\ Len(mail) < MaxParts
    /\ \E i \in Attachable(mail) : \E p \in PartKinds(i) : mail' = Append(mail, p)
    /\ UNCHANGED <<parsed, msg, labels, current, messages, calls, last>>

\* ParsedEmail(message)
Construct ==
    /\ parsed = None
    /\ parsed' = Some(ParsedEmail(mail))
    /\ UNCHANGED <<mail, msg, labels, current, messages, calls, last>>

NextParse == Attach \/ Construct

SpecParse == InitParse /\ [][NextParse]_vars

-----------------------------------------------------------------------------
(* Properties of ParsedEmail                                               *)

\* the part bears a filename or an "attachment" content-disposition
BearsAttachment(p) ==
    \/ p.filename # None
    \/ /\ p.disposition # None
       /\ \E k \in DOMAIN p.disposition[1] : p.disposition[1][k] = "attachment"

\* how often part i was recorded in each of the three collections
TimesIn(l, i) == Cardinality({ k \in DOMAIN l : l[k] = i })
TimesAttached(pe, i) ==
    Cardinality({ k \in DOMAIN pe._attachments : pe._attachments[k].part = i })

\* part i was classified exactly once, by the first rule that matches it
ClassifiedOnce(pe, parts, i) ==
    LET n == <<TimesAttached(pe, i), TimesIn(pe._html, i), TimesIn(pe._body, i)>> IN
    IF BearsAttachment(parts[i]) THEN n = <<1, 0, 0>>
    ELSE IF parts[i].ctype = "text/html" THEN n = <<0, 1, 0>>
    ELSE IF parts[i].ctype = "text/plain" THEN n = <<0, 0, 1>>
    ELSE n = <<0, 0, 0>>

Unrecorded(pe, i) ==
    <<TimesAttached(pe, i), TimesIn(pe._html, i), TimesIn(pe._body, i)>> = <<0, 0, 0>>

\* the parts the constructor looks at: the whole tree under a root whose
\* declared main type is multipart, the root alone under any other root
Visited(parts) ==
    IF parts[1].ctype = "multipart/mixed" THEN DOMAIN parts ELSE {1}

\* C9 as stated: in every part tree, every part bearing a filename or an
\* "attachment" disposition is recorded as an attachment and never as a text
\* or HTML candidate, and every part is classified exactly once (attachment,
\* else HTML, else text, else dropped).
C9_EveryPartClassifiedOnce ==
    parsed # None =>
        \A i \in DOMAIN mail : ClassifiedOnce(parsed[1], mail, i)

\* C9 amended: the same, for the parts the constructor visits (all of them
\* under a multipart root, the root alone otherwise); no other part is
\* recorded anywhere.
C9_VisitedPartClassifiedOnce ==
    parsed # None =>
        /\ \A i \in Visited(mail) : ClassifiedOnce(parsed[1], mail, i)
        /\ \A i \in DOMAIN mail \ Visited(mail) : Unrecorded(parsed[1], i)

\* a text/plain part named report.pdf with an attachment disposition, below a
\* multipart root, was recorded as an attachment only, next to an HTML body
C9_Witness ==
    /\ parsed # None
    /\ Len(mail) = 3
    /\ mail[1].ctype = "multipart/mixed"
    /\ \E i, j \in 2..3 :
          /\ mail[i].ctype = "text/plain"
          /\ mail[i].filename = Some(report_pdf)
          /\ mail[i].disposition # None
          /\ TimesAttached(parsed[1], i) = 1
          /\ TimesIn(parsed[1]._body, i) = 0
          /\ mail[j].ctype = "text/html"
          /\ parsed[1]._html = <<j>>

RECURSIVE Ancestors(_, _)
\* part i and the parts it is nested in
Ancestors(parts, i) ==
    IF i = 0 THEN {} ELSE {i} \cup Ancestors(parts, parts[i].parent)

\* part i comes before part j in depth-first tree order
Before(parts, i, j) ==
    /\ i # j
    /\ \/ i \in Ancestors(parts, j)
       \/ /\ j \notin Ancestors(parts, i)
          /\ \E a \in Ancestors(parts, i), b \in Ancestors(parts, j) :
                a # b /\ parts[a].parent = parts[b].parent /\ a < b

\* the payload of the last part of S in depth-first order, the empty text
\* when S is empty
LastPayload(parts, S) ==
    IF S = {} THEN Some(<<>>)
    ELSE LET i == CHOOSE i \in S : \A j \in S \ {i} : Before(parts, j, i)
         IN Some(<<"payload", i>>)

BodyParts(parts, S, ct) ==
    { i \in S : parts[i].ctype = ct /\ ~BearsAttachment(parts[i]) }

\* C10 as stated: html is the payload of the last text/html non-attachment
\* part of the tree in depth-first order, txt that of the last text/plain
\* one, and each is the empty text when the tree has no such part.
C10_LastPartOfTreeWins ==
    parsed # None =>
        /\ html(parsed[1], mail) = LastPayload(mail, BodyParts(mail, DOMAIN mail, "text/html"))
        /\ txt(parsed[1], mail) = LastPayload(mail, BodyParts(mail, DOMAIN mail, "text/plain"))

\* C10 amended: the same, among the parts the constructor visits.
C10_LastVisitedPartWins ==
    parsed # None =>
        /\ html(parsed[1], mail) = LastPayload(mail, BodyParts(mail, Visited(mail), "text/html"))
        /\ txt(parsed[1], mail) = LastPayload(mail, BodyParts(mail, Visited(mail), "text/plain"))

\* two text/html parts below a multipart root: html is the second one's
\* payload, and txt is empty because no text/plain part was recorded
C10_Witness ==
    /\ parsed # None
    /\ Len(mail) = 3
    /\ mail[1].ctype = "multipart/mixed"
    /\ mail[2].ctype = "text/html" /\ ~BearsAttachment(mail[2])
    /\ mail[3].ctype = "text/html" /\ ~BearsAttachment(mail[3])
    /\ html(parsed[1], mail) = Some(<<"payload", 3>>)
    /\ txt(parsed[1], mail) = Some(<<>>)

-----------------------------------------------------------------------------
(* The session (gmail, gmail.imap) as the Message methods see it           *)

\* what a remote call can come to: completed with status OK, completed with
\* a failure status (imaplib hands back 'NO'), or raised
Outcomes == {"OK", "NO", "raise"}

\* the session's answers to the (at most n) remote calls of one operation:
\* the call that raises, if any (an operation ends at the first raise), and
\* whether the calls that complete do so with status NO
Envs(n) == [raiseAt : 0..n, no : {{}, 1..n}]

Outcome(env, k) ==
    IF k = env.raiseAt THEN "raise" ELSE IF k \in env.no THEN "NO" ELSE "OK"

\* a context in which an operation on Message m starts: resp is what a FETCH
\* of m hands back, by status
Ctx(m, env, resp) ==
    [m |-> m, calls |-> <<>>, raised |-> FALSE, env |-> env, resp |-> resp]

\* one remote call: it is logged with its outcome and what it handed back,
\* and it raises or returns
Remote(x, cmd, uid, a, b, res, data) ==
    [x EXCEPT !.calls = Append(@, [cmd |-> cmd, uid |-> uid, a |-> a, b |-> b,
                                   res |-> res, data |-> data]),
              !.raised = (res = "raise")]

\* gmail.imap.uid(command, uid, ...): a FETCH hands back the response, a
\* SEARCH what the thread has in the active mailbox
imap_uid(x, cmd, uid, a, b) ==
    LET k == Len(x.calls) + 1
        res == IF k = x.env.raiseAt THEN "raise"
               ELSE IF cmd = "SEARCH"
               THEN (IF x.current \in x.env.nosearch THEN "NO" ELSE "OK")
               ELSE Outcome(x.env, k)
        data == IF res = "raise" THEN None
                ELSE IF cmd = "FETCH" THEN x.resp[res]
                ELSE IF cmd = "SEARCH"
                THEN (IF res = "OK" THEN x.found[x.current] ELSE <<"error">>)
                ELSE None
    IN Remote(x, cmd, uid, a, b, res, data)

\* a call of a session method that hands no status back: it returns or raises
Session(x, cmd, uid, a, b) ==
    Remote(x, cmd, uid, a, b,
           IF Len(x.calls) + 1 = x.env.raiseAt THEN "raise" ELSE "OK", None)

\* gmail.copy(uid, to_mailbox, from_mailbox)
gmail_copy(x, uid, to, from) == Session(x, "COPY", uid, to, from)

\* gmail.labels(): the call; its value is the account's label list
gmail_labels(x) == Session(x, "LABELS", None, None, None)

\* gmail.use_mailbox(name): selects the mailbox, which becomes the active one
use_mailbox(x, name) ==
    LET y == Session(x, "SELECT", None, name, None) IN
    IF y.raised THEN y ELSE [y EXCEPT !.current = name]

-----------------------------------------------------------------------------
(* Metadata extraction from the header text of a FETCH response            *)

\* Bound: the timestamps a Date header can denote are 1..MaxTime
MaxTime == 2

Seen == <<"Seen">>
Flagged == <<"Flagged">>
Deleted == <<"Deleted">>
Work == <<"Work">>
Important == <<"\\", "Important">>

_parse_flag(f) ==
    IF Len(f) > 0 /\ Head(f) = "\\" THEN Tail(f) ELSE f

\* imaplib.ParseFlags: the tokens of FLAGS (...), none when there is no match
ParseFlags(headers) == headers.flags

parse_flags(headers) ==
    { _parse_flag(ParseFlags(headers)[k]) : k \in DOMAIN ParseFlags(headers) }

RECURSIVE split(_, _)
\* str.split(sep): the pieces between the separators, empty pieces kept
split(text, sep) ==
    IF \A k \in DOMAIN text : text[k] # sep THEN <<text>>
    ELSE LET k == CHOOSE k \in DOMAIN text :
                      text[k] = sep /\ \A j \in 1..(k - 1) : text[j] # sep
         IN <<SubSeq(text, 1, k - 1)>> \o split(SubSeq(text, k + 1, Len(text)), sep)

RECURSIVE remove(_, _)
\* str.replace(c, '')
remove(text, c) ==
    IF text = <<>> THEN <<>>
    ELSE IF Head(text) = c THEN remove(Tail(text), c)
    ELSE <<Head(text)>> \o remove(Tail(text), c)

RECURSIVE string_escape(_)
\* str.decode("string_escape"): an escaped backslash becomes one backslash,
\* an unknown escape is kept as it is
string_escape(text) ==
    IF text = <<>> THEN <<>>
    ELSE IF Len(text) >= 2 /\ text[1] = "\\" /\ text[2] = "\\"
    THEN <<"\\">> \o string_escape(SubSeq(text, 3, Len(text)))
    ELSE <<Head(text)>> \o string_escape(Tail(text))

parse_labels(headers) ==
    IF headers.labels # None
    THEN LET ls == split(headers.labels[1], " ")
         IN [k \in DOMAIN ls |-> string_escape(remove(ls[k], "\""))]
    ELSE <<>>

\* set(fs) in the flags / labels setters
set(fs) == { fs[k] : k \in DOMAIN fs }

parse_subject(encoded_header) ==
    IF encoded_header # None THEN encoded_header[1] ELSE <<>>

\* email.utils.parsedate_tz: the time a well-formed date denotes, else None
parsedate_tz(date) ==
    IF date # None /\ Len(date[1]) = 2 /\ date[1][1] = "date:"
    THEN Some(date[1][2])
    ELSE None

\* len(message): the number of header fields, which decides its truth value
HeaderCount(email) ==
    Cardinality({ h \in {"subject", "date"} : email[h] # None })

\* the truth value of self.message
Truthy(message) == message # None /\ HeaderCount(message[1]) > 0

-----------------------------------------------------------------------------
(* Message                                                                 *)

\* Message.__init__
Message(mailbox, uid) ==
    [uid |-> uid, mailbox |-> mailbox, message |-> None,
     subject |-> None, body |-> None, html |-> None, sent_at |-> None,
     flags |-> {}, labels |-> {}, thread_id |-> None, message_id |-> None,
     attachments |-> <<>>]

\* an add_flag that stores without looking at the local set
add_flag_unchecked(x, flag) ==
    LET y == imap_uid(x, "STORE", x.m.uid, "+FLAGS", <<"\\">> \o flag) IN
    IF y.raised THEN y ELSE [y EXCEPT !.m.flags = @ \cup {flag}]

add_flag(x, flag) ==
    IF flag \notin x.m.flags
    THEN LET y == imap_uid(x, "STORE", x.m.uid, "+FLAGS", <<"\\">> \o flag) IN
         IF y.raised THEN y ELSE [y EXCEPT !.m.flags = @ \cup {flag}]
    ELSE x

remove_flag(x, flag) ==
    IF flag \in x.m.flags
    THEN LET y == imap_uid(x, "STORE", x.m.uid, "-FLAGS", <<"\\">> \o flag) IN
         IF y.raised THEN y ELSE [y EXCEPT !.m.flags = @ \ {flag}]
    ELSE x

is_read(m) == Seen \in m.flags
is_starred(m) == Flagged \in m.flags
is_deleted(m) == Deleted \in m.flags

mark_read(x) == add_flag(x, Seen)
mark_unread(x) == remove_flag(x, Seen)

star(x) == add_flag(x, Flagged)
un_star(x) == remove_flag(x, Flagged)

add_label(x, label) ==
    IF label \notin x.m.labels
    THEN LET y == imap_uid(x, "STORE", x.m.uid, "+X-GM-LABELS", label) IN
         IF y.raised THEN y ELSE [y EXCEPT !.m.labels = @ \cup {label}]
    ELSE x

remove_label(x, label) ==
    IF label \in x.m.labels
    THEN LET y == imap_uid(x, "STORE", x.m.uid, "-X-GM-LABELS", label) IN
         IF y.raised THEN y ELSE [y EXCEPT !.m.labels = @ \ {label}]
    ELSE x

RECURSIVE move_to(_, _, _)
RECURSIVE delete(_, _)

\* a delete that moves to the trash whatever mailbox the message is in
delete_always_moves(x, known) ==
    LET l == gmail_labels(x)
        trash == IF "[Gmail]/Trash" \in known THEN "[Gmail]/Trash" ELSE "[Gmail]/Bin"
        y == IF l.raised THEN l ELSE move_to(l, trash, known)
    IN IF y.raised THEN y ELSE add_flag(y, Deleted)

\* a delete that stores the flag before it moves
delete_flag_first(x, known) ==
    LET y == add_flag(x, Deleted)
        trash == IF "[Gmail]/Trash" \in known THEN "[Gmail]/Trash" ELSE "[Gmail]/Bin"
    IN IF y.raised \/ x.m.mailbox \in {"[Gmail]/Bin", "[Gmail]/Trash"} THEN y
       ELSE move_to(gmail_labels(y), trash, known)

\* a delete that moves the message to both trash names
delete_moves_to_both(x, known) ==
    LET y == IF x.m.mailbox \notin {"[Gmail]/Bin", "[Gmail]/Trash"}
             THEN LET l == gmail_labels(x)
                      t == IF l.raised THEN l ELSE move_to(l, "[Gmail]/Trash", known)
                  IN IF t.raised THEN t ELSE move_to(t, "[Gmail]/Bin", known)
             ELSE x
    IN IF y.raised THEN y ELSE add_flag(y, Deleted)

\* a move_to that only copies
move_to_copy_only(x, name, known) == gmail_copy(x, x.m.uid, name, x.m.mailbox)

\* known: the value of gmail.labels()
move_to(x, name, known) ==
    LET y == gmail_copy(x, x.m.uid, name, x.m.mailbox) IN
    IF y.raised THEN y
    ELSE IF name \notin {"[Gmail]/Bin", "[Gmail]/Trash"}
    THEN delete(y, known)
    ELSE y

delete(x, known) ==
    LET y == IF x.m.mailbox \notin {"[Gmail]/Bin", "[Gmail]/Trash"}
             THEN LET l == gmail_labels(x)
                      trash == IF "[Gmail]/Trash" \in known
                               THEN "[Gmail]/Trash" ELSE "[Gmail]/Bin"
                  IN IF l.raised THEN l ELSE move_to(l, trash, known)
             ELSE x
    IN IF y.raised THEN y ELSE add_flag(y, Deleted)

archive(x, known) == move_to(x, "[Gmail]/All Mail", known)

\* the attributes _parse sets before it reads the date
ParseHead(m, email) ==
    [m EXCEPT !.message = Some(email),
              !.subject = Some(parse_subject(email.subject))]

\* the attributes _parse sets once the date is read
ParseBody(m, raw_headers, email, fs, ls) ==
    LET pe == ParsedEmail(email.parts) IN
    [m EXCEPT !.sent_at = parsedate_tz(email.date),
              !.body = Some(txt(pe, email.parts)),
              !.html = Some(html(pe, email.parts)),
              !.attachments = attachments(pe),
              !.flags = fs,
              !.labels = ls,
              !.thread_id = IF raw_headers.thrid # None THEN raw_headers.thrid ELSE @,
              !.message_id = IF raw_headers.msgid # None THEN raw_headers.msgid ELSE @]

\* email.utils.parsedate_tz(...)[:9] raises on a date that does not parse
_parse(x, raw_message) ==
    LET raw_headers == raw_message[1]
        email == raw_message[2]
        m1 == ParseHead(x.m, email)
    IN IF parsedate_tz(email.date) = None
       THEN [x EXCEPT !.m = m1, !.raised = TRUE]
       ELSE [x EXCEPT !.m = ParseBody(m1, raw_headers, email,
                                      parse_flags(raw_headers),
                                      set(parse_labels(raw_headers)))]

FetchItems == "(BODY.PEEK[] FLAGS X-GM-THRID X-GM-MSGID X-GM-LABELS)"

\* results[0] is the response of the FETCH just issued
forced_fetch(x) ==
    LET y == imap_uid(x, "FETCH", x.m.uid, FetchItems, None) IN
    IF y.raised THEN y
    ELSE _parse(y, y.calls[Len(y.calls)].data)

\* a fetch that never looks at self.message
fetch_always(x) == forced_fetch(x)

fetch(x) == IF Truthy(x.m.message) THEN x ELSE forced_fetch(x)

-----------------------------------------------------------------------------
(* The Message operations as a state machine: one Message of one mailbox,  *)
(* any operation at any time, the session answering each remote call.      *)

MsgMailboxes == {"INBOX", "[Gmail]/Trash", "[Gmail]/Bin"}

Destinations == {"Work", "[Gmail]/Trash", "[Gmail]/Bin"}

\* the label lists of an account that calls its trash Trash, and of one that
\* calls it Bin
Accounts == { {"INBOX", "[Gmail]/All Mail", "[Gmail]/Trash"},
              {"INBOX", "[Gmail]/All Mail", "[Gmail]/Bin"} }

FlagTokens == {Seen, Deleted}
LabelTokens == {Work, Important}

\* header texts of FETCH responses: FLAGS (...), X-GM-LABELS (...),
\* X-GM-THRID n, X-GM-MSGID n, each present or not
HeaderTexts ==
    { [flags |-> <<>>, labels |-> None, thrid |-> None, msgid |-> None],
      [flags |-> << <<"\\", "Seen">> >>,
       labels |-> Some(<<"Work">>),
       thrid |-> Some(<<"123456789">>), msgid |-> Some(<<"42">>)],
      [flags |-> << <<"\\", "Seen">>, <<"\\", "Deleted">> >>,
       labels |-> Some(<<"\"", "\\", "\\", "Important", "\"", " ", "Work">>),
       thrid |-> Some(<<"123456789">>), msgid |-> Some(<<"42">>)],
      [flags |-> << <<"\\", "Deleted">> >>,
       labels |-> None,
       thrid |-> None, msgid |-> None] }

PlainBody == << Part("text/plain", <<None, None>>, 0) >>

\* a well-formed raw message sent at time t
Email(t) ==
    [subject |-> Some(<<"hi">>), date |-> Some(<<"date:", t>>), parts |-> PlainBody]

\* raw messages: a well-formed one, one whose Date does not parse, and one
\* without any header field
Emails ==
    { Email(1),
      [subject |-> Some(<<"hi">>), date |-> Some(<<"garbage">>), parts |-> PlainBody],
      [subject |-> None, date |-> None, parts |-> PlainBody] }

\* with status NO the data is the server's error text: no annotation in it,
\* and no header field
ErrorText ==
    << [flags |-> <<>>, labels |-> None, thrid |-> None, msgid |-> None],
       [subject |-> None, date |-> None, parts |-> PlainBody] >>

\* what a FETCH hands back, by the status it completes with
Responses == { [OK |-> <<h, e>>, NO |-> ErrorText] : h \in HeaderTexts, e \in Emails }

NoResponse == <<>>

\* no operation is running and the last one's result has been taken
Idle == [op |-> "idle"]

Init ==
    /\ msg \in { Message(mb, <<"1">>) : mb \in MsgMailboxes }
    /\ labels \in Accounts
    /\ current = msg.mailbox
    /\ messages = <<>>
    /\ calls = <<>>
    /\ last = Idle
    /\ mail = <<>>
    /\ parsed = None

\* the operation ran to its end (returned or raised) and left context r
Do(op, arg, r) ==
    /\ last = Idle
    /\ msg' = r.m
    /\ calls' = r.calls
    /\ last' = [op |-> op, arg |-> arg, pre |-> msg, raised |-> r.raised]
    /\ UNCHANGED <<mail, parsed, labels, current, messages>>

AddFlag ==
    \E flag \in FlagTokens, env \in Envs(1) :
        Do("add_flag", flag, add_flag(Ctx(msg, env, NoResponse), flag))

RemoveFlag ==
    \E flag \in FlagTokens, env \in Envs(1) :
        Do("remove_flag", flag, remove_flag(Ctx(msg, env, NoResponse), flag))

AddLabel ==
    \E label \in LabelTokens, env \in Envs(1) :
        Do("add_label", label, add_label(Ctx(msg, env, NoResponse), label))

RemoveLabel ==
    \E label \in LabelTokens, env \in Envs(1) :
        Do("remove_label", label, remove_label(Ctx(msg, env, NoResponse), label))

MoveTo ==
    \E name \in Destinations, env \in Envs(4) :
        Do("move_to", name, move_to(Ctx(msg, env, NoResponse), name, labels))

Delete ==
    \E env \in Envs(4) :
        Do("delete", None, delete(Ctx(msg, env, NoResponse), labels))

Archive ==
    \E env \in Envs(4) :
        Do("archive", None, archive(Ctx(msg, env, NoResponse), labels))

Fetch ==
    \E resp \in Responses, env \in Envs(1) :
        Do("fetch", None, fetch(Ctx(msg, env, resp)))

ForcedFetch ==
    \E resp \in Responses, env \in Envs(1) :
        Do("forced_fetch", None, forced_fetch(Ctx(msg, env, resp)))

\* the caller has the operation's result (or its exception) and goes on
Return ==
    /\ last # Idle
    /\ last' = Idle
    /\ calls' = <<>>
    /\ UNCHANGED <<mail, parsed, msg, labels, current, messages>>

Next ==
    \/ AddFlag \/ RemoveFlag \/ AddLabel \/ RemoveLabel
    \/ MoveTo \/ Delete \/ Archive
    \/ Fetch \/ ForcedFetch
    \/ Return

Spec == Init /\ [][Next]_vars

-----------------------------------------------------------------------------
(* Thread reconstruction: fetch_thread searches the message's own mailbox  *)
(* and the Sent mailbox for the thread, materialises what it finds into    *)
(* the two mailbox caches, and returns the merged messages by send time.   *)

SentMail == "[Gmail]/Sent Mail"

\* the mailboxes a threaded message lives in
Homes == {"INBOX", "Work"}

Mailboxes == Homes \cup {SentMail}

\* a context in which fetch_thread starts: the session's active mailbox and
\* caches, and what the server holds: found[name] is the text a SEARCH of the
\* thread hands back in mailbox name, server[name][uid] the send time of the
\* message uid of mailbox name
ThreadCtx(m, env, resp, cur, msgs, found, server) ==
    [m |-> m, calls |-> <<>>, raised |-> FALSE, env |-> env, resp |-> resp,
     current |-> cur, messages |-> msgs, found |-> found, server |-> server,
     got |-> <<>>, received |-> <<>>, sent |-> <<>>, ret |-> <<>>]

\* the annotations the server sends with a message of the thread
ThreadHeader ==
    [flags |-> <<>>, labels |-> None, thrid |-> Some(<<"123456789">>), msgid |-> None]

\* gmail.fetch_multiple_messages(messages): one batch FETCH in the active
\* mailbox (logged with the uids and the mailboxes of the Messages handed
\* over); every message the server knows is materialised in place
fetch_multiple_messages(x, msgs) ==
    LET y == Session(x, "BATCH", None, DOMAIN msgs,
                     { msgs[u].mailbox : u \in DOMAIN msgs })
        known == y.server[y.current]
    IN IF y.raised THEN y
       ELSE [y EXCEPT !.got =
                [u \in DOMAIN msgs |->
                    IF u \in DOMAIN known
                    THEN _parse([y EXCEPT !.m = msgs[u]],
                                <<ThreadHeader, Email(known[u])>>).m
                    ELSE msgs[u]]]

\* dict.update(other)
update(d, other) ==
    [k \in DOMAIN d \cup DOMAIN other |-> IF k \in DOMAIN other THEN other[k] ELSE d[k]]

\* an update that puts every result into the Sent mailbox's cache
cache_update_sent(z, mailbox) ==
    IF z.raised THEN z ELSE [z EXCEPT !.messages[SentMail] = update(@, z.got)]

\* mailbox.messages.update(...) with the result of the batch fetch
cache_update(z, mailbox) ==
    IF z.raised THEN z ELSE [z EXCEPT !.messages[mailbox] = update(@, z.got)]

\* a search whose status is never looked at
search_thread_unchecked(x, mailbox) ==
    IF x.m.thread_id = None THEN [x EXCEPT !.raised = TRUE]
    ELSE
    LET y == imap_uid(x, "SEARCH", None, None, <<"(X-GM-THRID ">> \o x.m.thread_id[1] \o <<")">>)
        results == y.calls[Len(y.calls)]
        uids == split(results.data, " ")
        new == [uid \in set(uids) |-> Message(mailbox, uid)]
    IN IF y.raised THEN y
       ELSE cache_update(fetch_multiple_messages(y, new), mailbox)

\* one half of fetch_thread, in the active mailbox: the SEARCH (the
\* concatenation raises when there is no thread id), and on status OK one
\* Message per uid, the batch fetch, and the update of the mailbox's cache;
\* got is the half's result map
search_thread(x, mailbox) ==
    IF x.m.thread_id = None THEN [x EXCEPT !.raised = TRUE]
    ELSE
    LET y == imap_uid(x, "SEARCH", None, None, <<"(X-GM-THRID ">> \o x.m.thread_id[1] \o <<")">>)
        results == y.calls[Len(y.calls)]
        uids == split(results.data, " ")
        new == [uid \in set(uids) |-> Message(mailbox, uid)]
    IN IF y.raised THEN y
       ELSE IF results.res = "OK"
       THEN cache_update(fetch_multiple_messages(y, new), mailbox)
       ELSE [y EXCEPT !.got = <<>>]

\* a merge in which the received entry wins
merge_received_wins(received_messages, sent_messages) ==
    update(sent_messages, received_messages)

\* dict(received_messages.items() + sent_messages.items()): the later item
\* of a key wins
merge(received_messages, sent_messages) ==
    update(received_messages, sent_messages)

RECURSIVE values(_)
\* dict.values(): the values, in the order the dict happens to keep
values(d) ==
    IF DOMAIN d = {} THEN <<>>
    ELSE LET k == CHOOSE k \in DOMAIN d : TRUE
         IN <<d[k]>> \o values([j \in DOMAIN d \ {k} |-> d[j]])

\* the key lambda m: m.sent_at, None ordered before every time
sort_key(m) == IF m.sent_at = None THEN 0 ELSE m.sent_at[1]

RECURSIVE sorted(_)
\* sorted(..., key=...): stable, ascending
sorted(ms) ==
    IF ms = <<>> THEN <<>>
    ELSE LET front == sorted(SubSeq(ms, 1, Len(ms) - 1))
             m == ms[Len(ms)]
             p == Cardinality({ i \in DOMAIN front : sort_key(front[i]) <= sort_key(m) })
         IN SubSeq(front, 1, p) \o <<m>> \o SubSeq(front, p + 1, Len(front))

\* a fetch_thread that searches before it selects
ThreadSteps_search_first ==
    <<"fetch", "search_received", "use_original", "use_sent", "search_sent",
      "use_original", "return">>

\* the statements of fetch_thread, in order
ThreadSteps ==
    <<"fetch", "use_original", "search_received", "use_sent", "search_sent",
      "use_original", "return">>

\* a fetch_thread that does not select the Sent mailbox
statement_sent_unselected(x, step) ==
    CASE step = "fetch" -> fetch(x)
      [] step = "use_original" -> use_mailbox(x, x.m.mailbox)
      [] step = "search_received" -> search_thread(x, x.m.mailbox)
      [] step = "use_sent" -> [x EXCEPT !.received = x.got]
      [] step = "search_sent" -> search_thread(x, SentMail)
      [] step = "return" ->
            [x EXCEPT !.sent = x.got,
                      !.ret = sorted(values(merge(x.received, x.got)))]

\* one statement of fetch_thread; original_mailbox is self.mailbox
statement(x, step) ==
    CASE step = "fetch" -> fetch(x)
      [] step = "use_original" -> use_mailbox(x, x.m.mailbox)
      [] step = "search_received" -> search_thread(x, x.m.mailbox)
      [] step = "use_sent" -> use_mailbox([x EXCEPT !.received = x.got], SentMail)
      [] step = "search_sent" -> search_thread(x, SentMail)
      [] step = "return" ->
            [x EXCEPT !.sent = x.got,
                      !.ret = sorted(values(merge(x.received, x.got)))]

RECURSIVE statements(_, _)
\* the statements one after the other, up to the first that raises
statements(x, steps) ==
    IF steps = <<>> \/ x.raised THEN x
    ELSE statements(statement(x, Head(steps)), Tail(steps))

fetch_thread(x) == statements(x, ThreadSteps)

-----------------------------------------------------------------------------
(* Thread reconstruction as a state machine: the caller selects mailboxes, *)
(* then reconstructs the thread of one message, the caches being empty.    *)

\* the send times of the thread's messages
Times == 1..MaxTime

\* Bound: the remote calls of one fetch_thread that may raise; it issues at
\* most 8 (FETCH, SELECT, SEARCH, BATCH, SELECT, SEARCH, BATCH, SELECT)
MaxCalls == 8

\* the session's answers to one fetch_thread: the call that raises, if any,
\* and the mailboxes whose SEARCH completes with NO; a FETCH that completes
\* does so with OK
ThreadEnvs(home) ==
    [raiseAt : 0..MaxCalls, no : {{}}, nosearch : SUBSET {home, SentMail}]

\* the thread's messages in the message's own mailbox, the uids the SEARCH
\* there hands back, and the same for the Sent mailbox
ReceivedUids == {<<"1">>, <<"2">>}
ReceivedFound == { <<>>, <<"2", " ", "1">> }
SentUids == {<<"1">>, <<"3">>}
SentFound == { <<>>, <<"1">>, <<"3", " ", "1">> }

\* what the FETCH of the message itself hands back: with a thread id, and
\* without one
ThreadResponses ==
    { [OK |-> <<h, Email(1)>>, NO |-> ErrorText] :
        h \in { ThreadHeader,
                [flags |-> <<>>, labels |-> None, thrid |-> None, msgid |-> None] } }

InitThread ==
    /\ msg \in { Message(mb, <<"1">>) : mb \in Homes }
    /\ labels = {}
    /\ current = "INBOX"
    /\ messages = [mb \in Mailboxes |-> <<>>]
    /\ calls = <<>>
    /\ last = Idle
    /\ mail = <<>>
    /\ parsed = None

\* the caller selects a mailbox
UseMailbox ==
    /\ last = Idle
    /\ \E name \in Mailboxes : current' = name
    /\ UNCHANGED <<mail, parsed, msg, labels, messages, calls, last>>

FetchThread ==
    /\ last = Idle
    /\ \E env \in ThreadEnvs(msg.mailbox), resp \in ThreadResponses,
          rf \in ReceivedFound, sf \in SentFound,
          rt \in [ReceivedUids -> Times], st \in [SentUids -> Times] :
          LET found == [mb \in Mailboxes |->
                           IF mb = msg.mailbox THEN rf ELSE IF mb = SentMail THEN sf ELSE <<>>]
              server == [mb \in Mailboxes |->
                           IF mb = msg.mailbox THEN rt ELSE IF mb = SentMail THEN st ELSE <<>>]
              r == fetch_thread(ThreadCtx(msg, env, resp, current, messages, found, server))
          IN /\ msg' = r.m
             /\ calls' = r.calls
             /\ current' = r.current
             /\ messages' = r.messages
             /\ last' = [op |-> "fetch_thread", pre |-> msg, raised |-> r.raised,
                         was |-> current, received |-> r.received, sent |-> r.sent,
                         ret |-> r.ret]
    /\ UNCHANGED <<mail, parsed, labels>>

NextThread == UseMailbox \/ FetchThread

SpecThread == InitThread /\ [][NextThread]_vars

-----------------------------------------------------------------------------
(* Properties of the Message operations                                    *)

IsStore(c, item, tok) == c.cmd = "STORE" /\ c.a = item /\ c.b = tok

\* the operation issued exactly one remote call, the STORE of this one token
OneStore(item, tok) ==
    /\ Len(calls) = 1
    /\ IsStore(calls[1], item, tok)
    /\ calls[1].uid = last.pre.uid

\* C1: add_flag(t) / add_label(t) issues exactly one STORE, adding only t,
\* when t is not in the local set and none when it is, and when it returns t is
\* in the set; remove_flag(t) / remove_label(t) issues exactly one STORE when t
\* is in the set and none when it is not, and when it returns t is not in the
\* set; nothing else of the two sets changes.  add_flag(Seen) makes is_read true.
C1_StoreOnlyOnChange ==
    /\ last.op = "add_flag" =>
          /\ IF last.arg \in last.pre.flags
             THEN calls = <<>>
             ELSE OneStore("+FLAGS", <<"\\">> \o last.arg)
          /\ ~last.raised => /\ msg.flags = last.pre.flags \cup {last.arg}
                             /\ msg.labels = last.pre.labels
                             /\ (last.arg = <<"Seen">> => is_read(msg))
    /\ last.op = "remove_flag" =>
          /\ IF last.arg \in last.pre.flags
             THEN OneStore("-FLAGS", <<"\\">> \o last.arg)
             ELSE calls = <<>>
          /\ ~last.raised => /\ msg.flags = last.pre.flags \ {last.arg}
                             /\ msg.labels = last.pre.labels
    /\ last.op = "add_label" =>
          /\ IF last.arg \in last.pre.labels
             THEN calls = <<>>
             ELSE OneStore("+X-GM-LABELS", last.arg)
          /\ ~last.raised => /\ msg.labels = last.pre.labels \cup {last.arg}
                             /\ msg.flags = last.pre.flags
    /\ last.op = "remove_label" =>
          /\ IF last.arg \in last.pre.labels
             THEN OneStore("-X-GM-LABELS", last.arg)
             ELSE calls = <<>>
          /\ ~last.raised => /\ msg.labels = last.pre.labels \ {last.arg}
                             /\ msg.flags = last.pre.flags

\* add_flag(Seen) on a message without Seen returned after one STORE of \Seen
\* and the message is read
C1_Witness ==
    /\ last.op = "add_flag"
    /\ last.arg = <<"Seen">>
    /\ <<"Seen">> \notin last.pre.flags
    /\ ~last.raised
    /\ Len(calls) = 1
    /\ calls[1].b = <<"\\", "Seen">>
    /\ is_read(msg)

\* C2: when the STORE issued by add_flag, remove_flag, add_label or
\* remove_label fails, by raising or by completing with a failure status, the
\* operation raises and the local flags and labels are as before the call.
C2_FailedStoreLeavesSetsAlone ==
    last.op \in {"add_flag", "remove_flag", "add_label", "remove_label"} =>
        \A k \in DOMAIN calls :
            calls[k].cmd = "STORE" /\ calls[k].res # "OK" =>
                /\ last.raised
                /\ msg.flags = last.pre.flags
                /\ msg.labels = last.pre.labels

\* C3: delete() on a message of a trash-equivalent mailbox issues no copy and
\* no label discovery; all it issues is the STORE adding \Deleted (once, when
\* Deleted is not yet in the local flags).
C3_DeleteInTrashOnlyFlags ==
    last.op = "delete" /\ last.pre.mailbox \in {"[Gmail]/Trash", "[Gmail]/Bin"} =>
        /\ \A k \in DOMAIN calls : calls[k].cmd \notin {"COPY", "LABELS"}
        /\ IF <<"Deleted">> \in last.pre.flags
           THEN calls = <<>>
           ELSE OneStore("+FLAGS", <<"\\", "Deleted">>)

\* delete() in [Gmail]/Bin returned after the one STORE of \Deleted
C3_Witness ==
    /\ last.op = "delete"
    /\ last.pre.mailbox = "[Gmail]/Bin"
    /\ ~last.raised
    /\ Len(calls) = 1
    /\ calls[1].cmd = "STORE"
    /\ is_deleted(msg)

\* the mailboxes the operation copied the message into, in order
RECURSIVE CopiesTo(_)
CopiesTo(cs) ==
    IF cs = <<>> THEN <<>>
    ELSE IF Head(cs).cmd = "COPY" THEN <<Head(cs).a>> \o CopiesTo(Tail(cs))
    ELSE CopiesTo(Tail(cs))

\* the trash mailbox of the account
TrashOf(known) ==
    IF "[Gmail]/Trash" \in known THEN "[Gmail]/Trash" ELSE "[Gmail]/Bin"

\* C4 as stated: move_to(name) copies the message into name and into no other
\* mailbox; when name is not trash-equivalent the message is also marked
\* Deleted; when it is, move_to triggers no delete.
C4_CopyIntoNamedMailboxOnly ==
    last.op = "move_to" =>
        /\ calls # <<>> /\ calls[1].cmd = "COPY" /\ calls[1].a = last.arg
        /\ \A k \in DOMAIN calls : calls[k].cmd = "COPY" => calls[k].a = last.arg
        /\ last.arg \notin {"[Gmail]/Trash", "[Gmail]/Bin"} /\ ~last.raised
              => is_deleted(msg)
        /\ last.arg \in {"[Gmail]/Trash", "[Gmail]/Bin"}
              => Len(calls) = 1 /\ msg = last.pre

\* C4 amended: move_to(name) first copies the message from its mailbox into
\* name.  When name is trash-equivalent that is all it does.  Otherwise it
\* goes on to delete(): the message is marked Deleted when move_to returns,
\* and when the message's own mailbox is not trash-equivalent either there is
\* one more copy, into the account's trash mailbox; no other copy is issued.
C4_CopyThenDelete ==
    last.op = "move_to" =>
        /\ calls # <<>>
        /\ calls[1].cmd = "COPY" /\ calls[1].a = last.arg
        /\ calls[1].b = last.pre.mailbox /\ calls[1].uid = last.pre.uid
        /\ last.arg \in {"[Gmail]/Trash", "[Gmail]/Bin"}
              => Len(calls) = 1 /\ msg = last.pre
        /\ last.arg \notin {"[Gmail]/Trash", "[Gmail]/Bin"} /\ ~last.raised
              => /\ is_deleted(msg)
                 /\ CopiesTo(calls) =
                        IF last.pre.mailbox \in {"[Gmail]/Trash", "[Gmail]/Bin"}
                        THEN <<last.arg>>
                        ELSE <<last.arg, TrashOf(labels)>>
        /\ \A k \in DOMAIN CopiesTo(calls) :
              CopiesTo(calls)[k] \in {last.arg, TrashOf(labels)}

\* move_to("Work") from INBOX returned: a copy into Work, the label
\* discovery, a copy into the trash, the STORE of \Deleted
C4_Witness ==
    /\ last.op = "move_to"
    /\ last.arg = "Work"
    /\ last.pre.mailbox = "INBOX"
    /\ ~last.raised
    /\ Len(calls) = 4
    /\ CopiesTo(calls) = <<"Work", TrashOf(labels)>>
    /\ calls[4].cmd = "STORE"
    /\ is_deleted(msg)

\* the message is fetched: it holds a message object and its attributes are
\* the ones read from that object (the last materialization ran to its end)
Fetched(m) ==
    /\ m.message # None
    /\ m.sent_at # None
    /\ m.message[1].date = Some(<<"date:", m.sent_at[1]>>)

IsFetch(c, uid) == c.cmd = "FETCH" /\ c.uid = uid

\* what the FLAGS / X-GM-LABELS text of the response of the last FETCH reads
\* as: flags without the leading backslash, labels without the quotes
ResponseFlags(h) ==
    { IF h.flags[k][1] = "\\" THEN Tail(h.flags[k]) ELSE h.flags[k] : k \in DOMAIN h.flags }

ResponseLabels(h) ==
    IF h.labels = None THEN {}
    ELSE IF h.labels = Some(<<"Work">>) THEN { <<"Work">> }
    ELSE { <<"\\", "Important">>, <<"Work">> }

\* C5: a Message starts unfetched and its first fetch() issues the FETCH;
\* fetch() issues a FETCH only on a message that is not fetched, and on a
\* fetched one it issues nothing and changes nothing; forced_fetch() issues
\* exactly one FETCH whatever the state, and when it returns the message is
\* fetched, holds the response's message, and its local flags and labels are
\* those of the response.
C5_FetchOnceForcedAlways ==
    /\ last.op = "fetch" =>
          /\ ~Fetched(Message(last.pre.mailbox, last.pre.uid))
          /\ last.pre = Message(last.pre.mailbox, last.pre.uid)
                => Len(calls) = 1 /\ IsFetch(calls[1], last.pre.uid)
          /\ calls # <<>> => ~Fetched(last.pre)
          /\ Fetched(last.pre) => calls = <<>> /\ msg = last.pre
    /\ last.op = "forced_fetch" =>
          /\ Len(calls) = 1 /\ IsFetch(calls[1], last.pre.uid)
          /\ ~last.raised =>
                /\ msg.message = Some(calls[1].data[2])
                /\ msg.flags = ResponseFlags(calls[1].data[1])
                /\ msg.labels = ResponseLabels(calls[1].data[1])
    /\ last.op \in {"fetch", "forced_fetch"} /\ calls # <<>> /\ ~last.raised =>
          Fetched(msg)

\* forced_fetch() on a fetched message whose local sets differ from the
\* server's: one FETCH, and the sets are the response's
C5_Witness ==
    /\ last.op = "forced_fetch"
    /\ Fetched(last.pre)
    /\ last.pre.flags = { <<"Deleted">> }
    /\ last.pre.labels = { <<"\\", "Important">> }
    /\ ~last.raised
    /\ Len(calls) = 1
    /\ msg.flags = { <<"Seen">> }
    /\ msg.labels = { <<"Work">> }

-----------------------------------------------------------------------------
(* Properties of thread reconstruction                                     *)

\* fetch_thread ran to its return statement
ThreadReturned == last.op = "fetch_thread" /\ ~last.raised

\* how often the Message m is in the returned sequence
TimesReturned(m) == Cardinality({ i \in DOMAIN last.ret : last.ret[i] = m })

\* C6: fetch_thread merges the result map of the message's mailbox and that
\* of the Sent mailbox: for a uid in both, the Sent Message is returned and the
\* received one is not; every other entry of either map is returned exactly
\* once; and the returned sequence is non-decreasing in the sent timestamp.
C6_SentWinsSortedMerge ==
    ThreadReturned =>
        LET received == last.received
            sent == last.sent
            ret == last.ret
        IN /\ \A u \in DOMAIN sent : TimesReturned(sent[u]) = 1
           /\ \A u \in DOMAIN received \cap DOMAIN sent :
                  TimesReturned(received[u]) = 0
           /\ \A u \in DOMAIN received \ DOMAIN sent :
                  TimesReturned(received[u]) = 1
           /\ Len(ret) = Cardinality(DOMAIN received \cup DOMAIN sent)
           /\ \A i, j \in DOMAIN ret :
                  i < j /\ ret[i].sent_at # None /\ ret[j].sent_at # None =>
                      ret[i].sent_at[1] <= ret[j].sent_at[1]

\* uid 1 is in both maps, as two Messages sent at different times; uid 2 is in
\* the received map only and was sent after the Sent mailbox's uid 1
C6_Witness ==
    /\ ThreadReturned
    /\ <<"1">> \in DOMAIN last.received \cap DOMAIN last.sent
    /\ last.received[<<"1">>].sent_at # last.sent[<<"1">>].sent_at
    /\ <<"2">> \in DOMAIN last.received
    /\ <<"2">> \notin DOMAIN last.sent
    /\ last.sent[<<"1">>].sent_at[1] < last.received[<<"2">>].sent_at[1]
    /\ Len(last.ret) = 2

\* the position in calls of the SEARCH issued while mailbox name was active
SearchAt(name) ==
    CHOOSE k \in DOMAIN calls :
        /\ calls[k].cmd = "SEARCH"
        /\ calls[k - 1].cmd = "SELECT"
        /\ calls[k - 1].a = name

\* the half of fetch_thread in mailbox name, whose result map is half,
\* contributed nothing: no Message, no batch fetch, nothing in the cache, and
\* nothing returned
NoContribution(name, half) ==
    /\ DOMAIN half = {}
    /\ calls[SearchAt(name) + 1].cmd # "BATCH"
    /\ DOMAIN messages[name] = {}
    /\ \A i \in DOMAIN last.ret : last.ret[i].mailbox # name

\* the half in mailbox name ran in full: one Message per uid of the search
\* result, the batch fetch, and the Messages in the cache
Contribution(name, half) ==
    /\ DOMAIN half = set(split(calls[SearchAt(name)].data, " "))
    /\ calls[SearchAt(name) + 1].cmd = "BATCH"
    /\ calls[SearchAt(name) + 1].a = DOMAIN half
    /\ messages[name] = half

\* the returned sequence is the Messages of the result map half
ReturnsHalf(half) ==
    /\ Len(last.ret) = Cardinality(DOMAIN half)
    /\ \A u \in DOMAIN half : TimesReturned(half[u]) = 1

\* C7: a SEARCH of fetch_thread that completes with a status other than OK
\* contributes no message of its mailbox (none constructed, none fetched, none
\* put into that mailbox's cache) and does not end the call: the other
\* mailbox's search, batch fetch and cache update happen and the call returns
\* the other half's messages.
C7_FailedSearchContributesNothing ==
    /\ last.op = "fetch_thread" /\ last.raised =>
          \/ calls # <<>> /\ calls[Len(calls)].res = "raise"
          \/ msg.thread_id = None
    /\ ThreadReturned =>
          LET home == last.pre.mailbox
              received_ok == calls[SearchAt(home)].res = "OK"
              sent_ok == calls[SearchAt(SentMail)].res = "OK"
          IN /\ IF received_ok THEN Contribution(home, last.received)
                               ELSE NoContribution(home, last.received)
             /\ IF sent_ok THEN Contribution(SentMail, last.sent)
                           ELSE NoContribution(SentMail, last.sent)
             /\ ~received_ok => /\ SearchAt(home) < SearchAt(SentMail)
                                 /\ ReturnsHalf(last.sent)
             /\ ~sent_ok => ReturnsHalf(last.received)

\* the SEARCH of the message's mailbox completed with NO, the one of the Sent
\* mailbox found two messages, and these are returned
C7_Witness ==
    /\ ThreadReturned
    /\ calls[SearchAt(last.pre.mailbox)].res = "NO"
    /\ calls[SearchAt(SentMail)].res = "OK"
    /\ DOMAIN last.sent = { <<"1">>, <<"3">> }
    /\ Len(last.ret) = 2

\* C8: when fetch_thread returns, the session's active mailbox is the one
\* that was active immediately before the call, whichever that was.
C8_ActiveMailboxRestored ==
    ThreadReturned => current = last.was

\* C16: delete() of a message whose mailbox is not trash-equivalent first
\* asks for the account's labels, then issues exactly one copy of the message,
\* into '[Gmail]/Trash' if the labels contain it and into '[Gmail]/Bin' if
\* not, and only after that copy the STORE of \Deleted: the calls are, in this
\* order, the discovery, the copy and the store, and none comes twice.
C16_CopyBeforeDeletedStore ==
    last.op = "delete" /\ last.pre.mailbox \notin {"[Gmail]/Trash", "[Gmail]/Bin"} =>
        /\ calls # <<>> /\ calls[1].cmd = "LABELS"
        /\ \A k \in DOMAIN calls :
              /\ calls[k].cmd = "LABELS" => k = 1
              /\ calls[k].cmd = "COPY" =>
                    /\ k = 2
                    /\ calls[k].uid = last.pre.uid
                    /\ calls[k].a = TrashOf(labels)
                    /\ calls[k].b = last.pre.mailbox
              /\ calls[k].cmd = "STORE" =>
                    /\ k = 3
                    /\ IsStore(calls[k], "+FLAGS", <<"\\">> \o Deleted)
                    /\ calls[2].cmd = "COPY" /\ calls[2].res # "raise"
        /\ ~last.raised =>
              /\ Len(calls) >= 2
              /\ is_deleted(msg)
              /\ Deleted \notin last.pre.flags => Len(calls) = 3

\* delete() of a message of INBOX, in an account that calls its trash Bin,
\* returned: the discovery, the copy into Bin, the store
C16_Witness ==
    /\ last.op = "delete"
    /\ last.pre.mailbox = "INBOX"
    /\ "[Gmail]/Trash" \notin labels
    /\ ~last.raised
    /\ Len(calls) = 3
    /\ calls[2].cmd = "COPY" /\ calls[2].a = "[Gmail]/Bin"
    /\ calls[3].cmd = "STORE"

\* how many of the calls are of command cmd
Count(cmd) == Cardinality({ k \in DOMAIN calls : calls[k].cmd = cmd })

\* C18: the mutual recursion of move_to and delete ends: for every mailbox
\* of the message, destination and label list, move_to, delete and archive
\* complete after at most move_to -> delete -> move_to (every move_to begins
\* with its copy, every delete outside the trash with the label discovery),
\* with at most two copies and at most one store, that of \Deleted, and they
\* return when every remote call returns.
C18_MoveDeleteTerminates ==
    last.op \in {"move_to", "delete", "archive"} =>
        /\ Count("COPY") <= 2
        /\ Count("LABELS") <= 1
        /\ Count("STORE") <= 1
        /\ \A k \in DOMAIN calls :
              /\ calls[k].cmd \in {"COPY", "LABELS", "STORE"}
              /\ calls[k].cmd = "STORE" => IsStore(calls[k], "+FLAGS", <<"\\">> \o Deleted)
        /\ (\A k \in DOMAIN calls : calls[k].res # "raise") => ~last.raised

\* archive() of a message of INBOX returned after the deepest nesting: the
\* copy into All Mail, the discovery, the copy into the trash, the store
C18_Witness ==
    /\ last.op = "archive"
    /\ last.pre.mailbox = "INBOX"
    /\ ~last.raised
    /\ Len(calls) = 4
    /\ Count("COPY") = 2
    /\ Count("STORE") = 1

-----------------------------------------------------------------------------
(* Properties of materialization                                           *)

\* the operation issued the FETCH and _parse ran to its end
Materialized ==
    /\ last.op \in {"fetch", "forced_fetch"}
    /\ calls # <<>>
    /\ ~last.raised

\* the header text of the response of the operation's FETCH
ResponseHeaders == calls[1].data[1]

\* C11: after every materialization (the first fetch or a later forced
\* re-fetch) thread_id is the digit string of X-GM-THRID in that response's
\* header text when the token is there and None when it is not, and likewise
\* message_id for X-GM-MSGID.
C11_IdsAreTheResponses ==
    Materialized =>
        /\ msg.thread_id = ResponseHeaders.thrid
        /\ msg.message_id = ResponseHeaders.msgid

\* the token begins with the protocol's escape character
Escaped(tok) == tok # <<>> /\ tok[1] = "\\"

\* C12: no token of the local flags set or labels set begins with a
\* backslash; checked where the caller's arguments play no part, right after a
\* materialization, which replaces both sets by what the response reads as.
C12_NoEscapePrefix ==
    Materialized => \A tok \in msg.flags \cup msg.labels : ~Escaped(tok)

\* the operation's FETCH completed and _parse failed on the Date header
DateFailed ==
    /\ last.op \in {"fetch", "forced_fetch"}
    /\ last.raised
    /\ calls # <<>>
    /\ calls[1].res # "raise"
    /\ parsedate_tz(calls[1].data[2].date) = None

\* C17: when materialization fails on a Date header that does not parse, the
\* failure propagates and the Message is as it was before, no attribute being
\* populated from the failed response; and a fetch() of a Message whose
\* materialization failed (it has no sent time) issues the FETCH again.
C17_FailedParseLeavesUnfetched ==
    /\ DateFailed => msg = last.pre
    /\ last.op = "fetch" /\ last.pre.sent_at = None => calls # <<>>

-----------------------------------------------------------------------------
(* Ordering of the remote calls of thread reconstruction                   *)

\* the greatest element of a non-empty set of numbers
Max(S) == CHOOSE k \in S : \A j \in S : j <= k

\* the session's active mailbox when the k-th call of fetch_thread is issued:
\* the one the last completed SELECT before it selected
ActiveAt(k) ==
    LET selects == { j \in 1..(k - 1) :
                        calls[j].cmd = "SELECT" /\ calls[j].res = "OK" }
    IN IF selects = {} THEN last.was ELSE calls[Max(selects)].a

\* the mailbox the k-th call, a SEARCH, concerns: the message's own for the
\* first SEARCH of fetch_thread, the Sent mailbox for the second
Concerns(k) ==
    IF \E j \in 1..(k - 1) : calls[j].cmd = "SEARCH"
    THEN SentMail ELSE last.pre.mailbox

\* C13: during fetch_thread every SEARCH and every batch fetch is issued
\* while the active mailbox is the mailbox whose messages it concerns, and a
\* mailbox is selected only after the call before it (a batch fetch in the
\* mailbox selected earlier, if there was one) has completed.
C13_CallsInTheirMailbox ==
    last.op = "fetch_thread" =>
        /\ \A k \in DOMAIN calls :
              /\ calls[k].cmd = "SEARCH" => ActiveAt(k) = Concerns(k)
              /\ calls[k].cmd = "BATCH" =>
                    /\ calls[k - 1].cmd = "SEARCH"
                    /\ calls[k].b = {ActiveAt(k)}
                    /\ ActiveAt(k) = Concerns(k - 1)
              /\ calls[k].cmd = "SELECT" /\ k > 1 => calls[k - 1].res # "raise"
        /\ ~last.raised => current = ActiveAt(Len(calls) + 1)

\* a fetch_thread of a message of Work that was called with the Sent mailbox
\* active and issued both searches and both batch fetches
C13_Witness ==
    /\ ThreadReturned
    /\ last.pre.mailbox = "Work"
    /\ last.was = SentMail
    /\ Cardinality({ k \in DOMAIN calls : calls[k].cmd = "SEARCH" }) = 2
    /\ Cardinality({ k \in DOMAIN calls : calls[k].cmd = "BATCH" }) = 2

\* the uids a search result text lists
Uids(text) == { u \in set(split(text, " ")) : u # <<>> }

\* the half of fetch_thread in mailbox name, with result map half, made one
\* Message per uid the SEARCH returned, keyed by the uid and bound to the
\* mailbox, and made, fetched and cached none when it returned no uid
OnePerUid(name, half) ==
    LET k == SearchAt(name) IN
    calls[k].res = "OK" =>
        /\ DOMAIN half = Uids(calls[k].data)
        /\ \A u \in DOMAIN half : half[u].uid = u /\ half[u].mailbox = name
        /\ Uids(calls[k].data) = {} =>
              /\ calls[k + 1].cmd # "BATCH"
              /\ DOMAIN messages[name] = {}

\* C15: for each of the two mailboxes of fetch_thread exactly one Message is
\* constructed per uid a successful search returns, keyed by that uid and
\* bound to that mailbox; a successful search that returns no uid constructs,
\* fetches and caches no Message for that mailbox.
C15_OneMessagePerUid ==
    ThreadReturned =>
        /\ OnePerUid(last.pre.mailbox, last.received)
        /\ OnePerUid(SentMail, last.sent)

\* the cache of mailbox name holds exactly the entries of the result map half
CacheIs(name, half) ==
    /\ DOMAIN messages[name] = DOMAIN half
    /\ \A u \in DOMAIN half : messages[name][u] = half[u]

-----------------------------------------------------------------------------
(* Two callers on one session: each runs fetch_thread for a message of its *)
(* own mailbox, statement by statement, the statements of the two          *)
(* interleaving. The session's active mailbox and the mailbox caches are   *)
(* shared; here msg[t] is the caller's message, last[t] its position and   *)
(* local state, and calls the statements issued, in order, each with its   *)
(* caller and the mailbox active as it is issued.                          *)

Threads == {1, 2}

\* the mailbox of each caller's message
HomeOf(t) == IF t = 1 THEN "INBOX" ELSE "Work"

\* every mailbox holds one message of the thread, uid 1
FoundOne == [mb \in Mailboxes |-> <<"1">>]
ServerOne == [mb \in Mailboxes |-> [u \in { <<"1">> } |-> 1]]

\* every remote call returns; the SEARCH of the Sent mailbox completes with
\* OK or with NO
ConcurrentEnvs == [raiseAt : {0}, no : {{}}, nosearch : {{}, {SentMail}}]

InitConcurrent ==
    /\ msg = [t \in Threads |-> Message(HomeOf(t), <<"1">>)]
    /\ labels = {}
    /\ current = "INBOX"
    /\ messages = [mb \in Mailboxes |-> <<>>]
    /\ calls = <<>>
    /\ last = [t \in Threads |-> [pc |-> 0]]
    /\ mail = <<>>
    /\ parsed = None

\* caller t calls fetch_thread
Begin(t) ==
    /\ last[t].pc = 0
    /\ \E env \in ConcurrentEnvs :
          last' = [last EXCEPT ![t] =
                      [pc |-> 1,
                       x |-> ThreadCtx(msg[t], env,
                                       [OK |-> <<ThreadHeader, Email(1)>>, NO |-> ErrorText],
                                       current, messages, FoundOne, ServerOne)]]
    /\ UNCHANGED <<mail, parsed, msg, labels, current, messages, calls>>

\* the state caller t runs its next statement in: its own, with the session
\* as it is now
Resumed(t) == [last[t].x EXCEPT !.current = current, !.messages = messages]

\* caller t runs its next statement
Step(t) ==
    /\ last[t].pc \in DOMAIN ThreadSteps
    /\ ~last[t].x.raised
    /\ LET step == ThreadSteps[last[t].pc]
           y == statement(Resumed(t), step)
       IN /\ current' = y.current
          /\ messages' = y.messages
          /\ msg' = [msg EXCEPT ![t] = y.m]
          /\ last' = [last EXCEPT ![t] = [pc |-> last[t].pc + 1, x |-> y]]
          /\ calls' = Append(calls, [by |-> t, step |-> step, at |-> current])
    /\ UNCHANGED <<mail, parsed, labels>>

NextConcurrent == \E t \in Threads : Begin(t) \/ Step(t)

SpecConcurrent == InitConcurrent /\ [][NextConcurrent]_vars

\* the k-th statement issued is a search
IsSearch(k) == calls[k].step \in {"search_received", "search_sent"}

IsSelect(k) == calls[k].step \in {"use_original", "use_sent"}

\* the mailbox the caller of the k-th statement, a search, selected for it
Selected(k) ==
    IF calls[k].step = "search_received" THEN HomeOf(calls[k].by) ELSE SentMail

\* the k-th statement is a search (SEARCH and batch fetch) issued while the
\* active mailbox is not the one its caller selected
Astray(k) == IsSearch(k) /\ calls[k].at # Selected(k)

\* C14: the operations are not safe under concurrent use of one session: a
\* search of one fetch_thread can be issued while the active mailbox is not
\* the one that call selected, and whenever that happens it is because the
\* other call selected a mailbox between this call's selection and its search.
C14_AstrayOnlyByInterleaving ==
    \A k \in DOMAIN calls :
        Astray(k) =>
            \E i, j \in 1..(k - 1) :
                /\ i < j
                /\ IsSelect(i) /\ calls[i].by = calls[k].by
                /\ \A h \in (i + 1)..(k - 1) : calls[h].by # calls[k].by
                /\ IsSelect(j) /\ calls[j].by # calls[k].by

\* an interleaving in which a search was issued in the other caller's mailbox
C14_Witness ==
    \E k \in DOMAIN calls :
        /\ Astray(k)
        /\ calls[k].step = "search_received"
        /\ calls[k].at = HomeOf(3 - calls[k].by)

-----------------------------------------------------------------------------
(* The Message against the server's copy of it: one session and no other   *)
(* actor, every remote call completing with OK. Here mail is the message   *)
(* as the server holds it: its flags, as they are on the wire, and its     *)
(* labels.                                                                 *)

\* a keyword flag: on the wire it has no backslash
NonJunk == <<"NonJunk">>

\* the flags and labels the server's copy may start with
ServerFlags == { <<"\\">> \o Seen, <<"\\">> \o Flagged, NonJunk }
ServerLabels == { Work, Important }

\* the server's STORE of call c
store(server, c) ==
    CASE c.a = "+FLAGS" -> [server EXCEPT !.flags = @ \cup {c.b}]
      [] c.a = "-FLAGS" -> [server EXCEPT !.flags = @ \ {c.b}]
      [] c.a = "+X-GM-LABELS" -> [server EXCEPT !.labels = @ \cup {c.b}]
      [] c.a = "-X-GM-LABELS" -> [server EXCEPT !.labels = @ \ {c.b}]

RECURSIVE served(_, _)
\* the server's copy after the calls cs, in order
served(server, cs) ==
    IF cs = <<>> THEN server
    ELSE served(IF Head(cs).cmd = "STORE" THEN store(server, Head(cs)) ELSE server,
                Tail(cs))

RECURSIVE listed(_)
\* the elements of a set, one after the other
listed(S) ==
    IF S = {} THEN <<>>
    ELSE LET e == CHOOSE e \in S : TRUE IN <<e>> \o listed(S \ {e})

\* a label as X-GM-LABELS writes it: one that begins with a backslash is
\* quoted and its backslash escaped
quoted(label) ==
    IF label # <<>> /\ label[1] = "\\"
    THEN <<"\"", "\\">> \o label \o <<"\"">>
    ELSE label

RECURSIVE joined(_)
\* ' '.join of the written labels
joined(ls) ==
    IF ls = <<>> THEN <<>>
    ELSE IF Len(ls) = 1 THEN quoted(ls[1])
    ELSE quoted(ls[1]) \o <<" ">> \o joined(Tail(ls))

\* the header text of a FETCH of the server's copy
ServedHeaders(server) ==
    [flags |-> listed(server.flags),
     labels |-> IF server.labels = {} THEN None ELSE Some(joined(listed(server.labels))),
     thrid |-> Some(<<"123456789">>), msgid |-> Some(<<"42">>)]

\* every remote call completes with OK
AllOK == [raiseAt |-> 0, no |-> {}]

\* the context of an operation on the message, the server holding mail
Served == Ctx(msg, AllOK, [OK |-> <<ServedHeaders(mail), Email(1)>>, NO |-> ErrorText])

InitStore ==
    /\ msg = Message("INBOX", <<"1">>)
    /\ mail \in [flags : SUBSET ServerFlags, labels : SUBSET ServerLabels]
    /\ labels = {}
    /\ current = "INBOX"
    /\ messages = <<>>
    /\ calls = <<>>
    /\ last = Idle
    /\ parsed = None

\* the operation ran to its end and left context r; the server has carried
\* out its calls
Stored(op, arg, r) ==
    /\ msg' = r.m
    /\ calls' = r.calls
    /\ mail' = served(mail, r.calls)
    /\ last' = [op |-> op, arg |-> arg]
    /\ UNCHANGED <<parsed, labels, current, messages>>

StoreFetch == Stored("fetch", None, fetch(Served))

StoreAddFlag == \E flag \in {Seen, NonJunk} : Stored("add_flag", flag, add_flag(Served, flag))

StoreRemoveFlag ==
    \E flag \in {Seen, NonJunk} : Stored("remove_flag", flag, remove_flag(Served, flag))

MarkRead == Stored("mark_read", None, mark_read(Served))

MarkUnread == Stored("mark_unread", None, mark_unread(Served))

Star == Stored("star", None, star(Served))

UnStar == Stored("un_star", None, un_star(Served))

StoreAddLabel ==
    \E label \in LabelTokens : Stored("add_label", label, add_label(Served, label))

StoreRemoveLabel ==
    \E label \in LabelTokens : Stored("remove_label", label, remove_label(Served, label))

NextStore ==
    \/ StoreFetch
    \/ StoreAddFlag \/ StoreRemoveFlag
    \/ MarkRead \/ MarkUnread \/ Star \/ UnStar
    \/ StoreAddLabel \/ StoreRemoveLabel

SpecStore == InitStore /\ [][NextStore]_vars

\* C20: with one session, no other actor and every STORE succeeding, once the
\* Message has been fetched its local flags are the server's flags for the
\* uid (each without its backslash) and its local labels the server's labels,
\* after any sequence of add_flag, remove_flag, mark_read, mark_unread, star,
\* un_star, add_label and remove_label.
C20_LocalSetsAreTheServers ==
    msg.message # None =>
        /\ msg.flags = { _parse_flag(f) : f \in mail.flags }
        /\ msg.labels = mail.labels

====
